---- MODULE Spec2Model ----
(***************************************************************************)
(* The product catalog service of src/src/app.mjs: initializeApp loads the *)
(* ProductManager once, main registers GET /products and                   *)
(* GET /products/:pid and listens, and the two async handlers answer       *)
(* requests, each suspended once at its await on the manager.              *)
(*                                                                         *)
(* ./models/ProductManager.mjs (Product, ProductManager, validateUUID) is  *)
(* imported by app.mjs but is not among the sources; the definitions that  *)
(* stand for it follow the specification's sections 3, 4.1 and 4.2.        *)
(*                                                                         *)
(* Strings the code inspects character by character are sequences of       *)
(* one-character strings.  An identifier is held in the state by its       *)
(* number h; IdText(h) is its text, and different numbers have different   *)
(* texts, so two identifiers are the same string exactly when their        *)
(* numbers are equal.                                                      *)
(***************************************************************************)
EXTENDS Integers, Sequences, FiniteSets

VARIABLES
    pc,          \* where initializeApp is: "start", "awaitLoad", "callMain", "done", "exited"
    source,      \* the backing source: [present, records]
    products,    \* the manager's products array (Product instances, load order)
    loadState,   \* manager.loadProducts(): "notCalled", "pending", "resolved", "rejected"
    loadCalls,   \* how many times manager.loadProducts() was invoked
    routes,      \* the routes registered on app by main
    listening,   \* app.listen was called
    exitCode,    \* 0 while the process runs, the code given to process.exit otherwise
    reqs         \* the requests received: in flight (suspended at await) or answered

vars == <<pc, source, products, loadState, loadCalls, routes, listening, exitCode, reqs>>

-----------------------------------------------------------------------------
(* Bounds *)

\* Most records the backing source holds.
MaxSource == 13
\* Most requests held at once (in flight or answered and not yet replaced).
MaxRequests == 2

-----------------------------------------------------------------------------
(* Characters and strings *)

Digits == <<"0", "1", "2", "3", "4", "5", "6", "7", "8", "9">>
HexLetters == {"a", "b", "c", "d", "e", "f", "A", "B", "C", "D", "E", "F"}
HexDigits == <<"0", "1", "2", "3", "4", "5", "6", "7", "8", "9", "a", "b", "c", "d", "e", "f">>

IsDigit(c) == \E i \in 1..Len(Digits) : Digits[i] = c
DigitVal(c) == (CHOOSE i \in 1..Len(Digits) : Digits[i] = c) - 1
IsHex(c) == IsDigit(c) \/ c \in HexLetters

Rep(c, n) == [i \in 1..n |-> c]

\* The 8-4-4-4-12 token all of whose hexadecimal positions hold c.
UUIDOf(c) ==
    Rep(c, 8) \o <<"-">> \o Rep(c, 4) \o <<"-">> \o Rep(c, 4) \o <<"-">>
        \o Rep(c, 4) \o <<"-">> \o Rep(c, 12)

Min(a, b) == IF a <= b THEN a ELSE b
Max(a, b) == IF a >= b THEN a ELSE b

-----------------------------------------------------------------------------
(* JavaScript numbers, parseInt, ||, Array.prototype.slice *)

NaN == [nan |-> TRUE, n |-> 0]
Num(k) == [nan |-> FALSE, n |-> k]

\* String(undefined), what parseInt makes of an absent query parameter.
UndefinedText == <<"u", "n", "d", "e", "f", "i", "n", "e", "d">>

RECURSIVE TrimStart(_)
TrimStart(s) ==
    IF s # <<>> /\ Head(s) = " " THEN TrimStart(Tail(s)) ELSE s

RECURSIVE DigitPrefix(_)
DigitPrefix(s) ==
    IF s # <<>> /\ IsDigit(Head(s)) THEN <<Head(s)>> \o DigitPrefix(Tail(s)) ELSE <<>>

RECURSIVE Decimal(_)
Decimal(ds) ==
    IF ds = <<>> THEN 0 ELSE 10 * Decimal(SubSeq(ds, 1, Len(ds) - 1)) + DigitVal(ds[Len(ds)])

\* parseInt(text) with no radix, on text without a 0x prefix: leading white
\* space is skipped, one sign is taken, the longest run of decimal digits is
\* the value, and what follows is ignored; no digit at all gives NaN.
parseInt(text) ==
    LET t == TrimStart(text)
        signed == t # <<>> /\ Head(t) \in {"-", "+"}
        sign == IF t # <<>> /\ Head(t) = "-" THEN -1 ELSE 1
        ds == DigitPrefix(IF signed THEN Tail(t) ELSE t)
    IN  IF ds = <<>> THEN NaN ELSE Num(sign * Decimal(ds))

\* x is truthy: neither NaN nor 0 (nor -0).
Truthy(x) == ~x.nan /\ x.n # 0

\* arr.slice(start, end) for integer start and end.
slice(arr, start, end) ==
    LET len == Len(arr)
        from == IF start < 0 THEN Max(len + start, 0) ELSE Min(start, len)
        to == IF end < 0 THEN Max(len + end, 0) ELSE Min(end, len)
    IN  SubSeq(arr, from + 1, to)

-----------------------------------------------------------------------------
(* Product and ProductManager (./models/ProductManager.mjs) *)

\* Identifiers that no record of the backing source has, numbered 0, -1, -2,
\* -3, -4: a well-formed one, "not-a-uuid", one with a character that is not
\* hexadecimal, one too short (no hyphens), one of the right length with no
\* hyphens.
OtherIds ==
    << UUIDOf("A"),
       <<"n", "o", "t", "-", "a", "-", "u", "u", "i", "d">>,
       UUIDOf("g"),
       Rep("1", 32),
       Rep("1", 36) >>

\* The text of identifier h.  Identifier h >= 1 is the one of the h-th record
\* of the backing source: pairwise distinct, not in increasing order, and
\* malformed in record 9.
IdText(h) ==
    IF h < 1 THEN OtherIds[1 - h]
    ELSE IF h % 16 = 9 THEN <<"i", "d", HexDigits[(h % 16) + 1]>>
    ELSE UUIDOf(HexDigits[((h * 7) % 16) + 1])

\* The 8-4-4-4-12 hexadecimal grouping with hyphens.
IsUUIDText(s) ==
    /\ Len(s) = 36
    /\ \A i \in 1..36 :
          IF i \in {9, 14, 19, 24} THEN s[i] = "-" ELSE IsHex(s[i])

\* The identifiers in use, and those among them whose text is well formed
\* (computed once).
KnownIds == (1 - Len(OtherIds))..MaxSource
WellFormedIds == {h \in KnownIds : IsUUIDText(IdText(h))}

\* validateUUID(id): the text of id is well formed.
validateUUID(h) == h \in WellFormedIds

\* The i-th record of the backing source; record 4 has a negative price.
RawRecord(i) ==
    [id |-> i, title |-> <<"p", HexDigits[(i % 16) + 1]>>,
     price |-> IF i % 16 = 4 THEN -1 ELSE 10 * i, stock |-> i % 3]

\* new Product(raw) succeeds: no ValidationError.
RecordIsValid(raw) ==
    /\ validateUUID(raw.id)
    /\ raw.price >= 0
    /\ raw.stock >= 0

\* new Product(raw): the class instance.
NewProduct(raw) ==
    [class |-> "Product", id |-> raw.id, title |-> raw.title,
     price |-> raw.price, stock |-> raw.stock]

\* product.getProductAsObject(): the plain record, without internal state.
getProductAsObject(p) ==
    [id |-> p.id, title |-> p.title, price |-> p.price, stock |-> p.stock]

RECURSIVE LoadedFrom(_)
\* The Products built from the valid records, in the order of the source.
LoadedFrom(records) ==
    IF records = <<>> THEN <<>>
    ELSE LET rest == LoadedFrom(SubSeq(records, 1, Len(records) - 1))
             last == records[Len(records)]
         IN  IF RecordIsValid(last) THEN Append(rest, NewProduct(last)) ELSE rest

\* manager.getProductsAsObjects(): every product as a plain record, load order.
getProductsAsObjects(ps) == [i \in 1..Len(ps) |-> getProductAsObject(ps[i])]

\* manager.getProductById(id): "throw" for a malformed identifier
\* (InvalidIdentifierError); otherwise the product found, as a one-element
\* sequence, or <<>> for the absent value.
getProductById(ps, id) ==
    IF ~validateUUID(id) THEN [threw |-> TRUE, found |-> <<>>]
    ELSE LET hits == {i \in 1..Len(ps) : ps[i].id = id}
         IN  [threw |-> FALSE,
              found |-> IF hits = {} THEN <<>>
                        ELSE <<ps[CHOOSE i \in hits : \A j \in hits : i <= j]>>]

-----------------------------------------------------------------------------
(* The handlers' conditions (main) *)

DEFAULT_LIMIT == 10

\* (faulty variant: without the || DEFAULT_LIMIT)
ParsedLimitNoDefault(q) == parseInt(IF q.given THEN q.text ELSE UndefinedText)
\* const limit = parseInt(req.query.limit) || DEFAULT_LIMIT;
\* q is req.query.limit: q.given is FALSE when the parameter is absent.
ParsedLimit(q) ==
    LET parsed == parseInt(IF q.given THEN q.text ELSE UndefinedText)
    IN  IF Truthy(parsed) THEN parsed ELSE Num(DEFAULT_LIMIT)

\* (faulty variant: without the limit < 0)
LimitRejectedNaNOnly(limit) == limit.nan
\* if (limit < 0 || Number.isNaN(limit))
LimitRejected(limit) == (~limit.nan /\ limit.n < 0) \/ limit.nan

\* (faulty variant: one record short)
LimitedProductsOffByOne(objects, limit) == slice(objects, 0, limit.n - 1)
\* const limitedProducts = products.slice(0, limit);
LimitedProducts(objects, limit) == slice(objects, 0, limit.n)

\* (faulty variant: the check left out)
PidRejectedNever(pid) == FALSE
\* if (!validateUUID(productId))
PidRejected(pid) == ~validateUUID(pid)

\* (faulty variants: the check left out; the check inverted)
NotFoundNever(found) == FALSE
NotFoundInverted(found) == found # <<>>
\* if (!product)
NotFound(found) == found = <<>>

-----------------------------------------------------------------------------
(* Inputs *)

Sources ==
    {[present |-> TRUE, records |-> [i \in 1..n |-> RawRecord(i)]] : n \in 0..MaxSource}
        \cup {[present |-> FALSE, records |-> <<>>]}

LimitTexts ==
    { <<>>, <<"0">>, <<"-", "2">>, <<"a", "b", "c">>, <<"1">>, <<" ", "3">>,
      <<"1", "2">>, <<"3", "p", "x">> }

LimitInputs ==
    {[given |-> TRUE, text |-> t] : t \in LimitTexts} \cup {[given |-> FALSE, text |-> <<>>]}

\* The identifiers requested: those of the first record, of the record with
\* a negative price, of the seventh (11111111-1111-1111-1111-111111111111),
\* of the record with a malformed identifier and of the last record, and the
\* ones no record has.
PidInputs == {1, 4, 7, 9, MaxSource} \cup {1 - k : k \in 1..Len(OtherIds)}

-----------------------------------------------------------------------------
(* State *)

\* A request as the handler sees it: given and text are req.query.limit
\* (/products), pid is req.params.pid (/products/:pid; 0 on the other route,
\* which does not read it).  pc is "await" while the handler is
\* suspended at its await and "done" once it has responded.  limit is the
\* handler's const limit; pending and threw are what the awaited manager call
\* settles to; calls lists the manager methods the handler invoked.  The
\* response is status, error (the error body's message, "" for none) and
\* items (the JSON body: the array of /products, or the single object of
\* /products/:pid as a one-element sequence).
Request(route, given, text, pid) ==
    [route |-> route, given |-> given, text |-> text, pid |-> pid, pc |-> "await",
     limit |-> Num(0), pending |-> <<>>, threw |-> FALSE, calls |-> <<>>,
     status |-> 0, error |-> "", items |-> <<>>]

Init ==
    /\ pc = "start"
    /\ source \in Sources
    /\ products = <<>>
    /\ loadState = "notCalled"
    /\ loadCalls = 0
    /\ routes = {}
    /\ listening = FALSE
    /\ exitCode = 0
    /\ reqs = {}

-----------------------------------------------------------------------------
(* Startup: initializeApp, loadProducts, main *)

\* initializeApp calls loadProducts: the manager is built over an empty array
\* and manager.loadProducts() is called and awaited.
StartLoad ==
    /\ pc = "start"
    /\ products' = <<>>
    /\ loadState' = "pending"
    /\ loadCalls' = loadCalls + 1
    /\ pc' = "awaitLoad"
    /\ UNCHANGED <<source, routes, listening, exitCode, reqs>>

\* manager.loadProducts() resolves: the source was read, every record was
\* valid or the invalid ones were skipped; printProducts, return manager.
LoadResolve ==
    /\ pc = "awaitLoad"
    /\ loadState = "pending"
    /\ source.present
    /\ products' = LoadedFrom(source.records)
    /\ loadState' = "resolved"
    /\ pc' = "callMain"
    /\ UNCHANGED <<source, loadCalls, routes, listening, exitCode, reqs>>

\* manager.loadProducts() rejects (the source is absent, or a record is
\* invalid and the load aborts): initializeApp's catch calls process.exit(1).
LoadReject ==
    /\ pc = "awaitLoad"
    /\ loadState = "pending"
    /\ \/ ~source.present
       \/ \E i \in 1..Len(source.records) : ~RecordIsValid(source.records[i])
    /\ loadState' = "rejected"
    /\ exitCode' = 1
    /\ pc' = "exited"
    /\ UNCHANGED <<source, products, loadCalls, routes, listening, reqs>>

\* (faulty variant: main(manager) called while manager.loadProducts() is
\* still pending, the await left out)
MainWithoutAwait ==
    /\ pc = "awaitLoad"
    /\ routes' = {"/products", "/products/:pid"}
    /\ listening' = TRUE
    /\ pc' = "done"
    /\ UNCHANGED <<source, products, loadState, loadCalls, exitCode, reqs>>

\* main(manager): both routes are registered and app.listen is called.
Main ==
    /\ pc = "callMain"
    /\ routes' = {"/products", "/products/:pid"}
    /\ listening' = TRUE
    /\ pc' = "done"
    /\ UNCHANGED <<source, products, loadState, loadCalls, exitCode, reqs>>

-----------------------------------------------------------------------------
(* Request handling *)

\* The server takes a request: it joins the requests held, replacing an
\* answered one when MaxRequests are held already.
Admit(new) ==
    \/ /\ Cardinality(reqs) < MaxRequests
       /\ reqs' = reqs \cup {new}
    \/ \E old \in reqs :
          /\ Cardinality(reqs) = MaxRequests
          /\ old.pc = "done"
          /\ reqs' = (reqs \ {old}) \cup {new}

Serving(route) == listening /\ route \in routes /\ exitCode = 0

\* (faulty variant: the /products handler calls manager.loadProducts() again,
\* which appends to the array)
ListBeginReloading(q) ==
    /\ Serving("/products")
    /\ loadCalls < 2
    /\ products' = products \o LoadedFrom(source.records)
    /\ loadCalls' = loadCalls + 1
    /\ Admit([Request("list", q.given, q.text, 0) EXCEPT
                 !.limit = ParsedLimit(q),
                 !.pending = getProductsAsObjects(products'),
                 !.calls = <<"loadProducts", "getProductsAsObjects">>])
    /\ UNCHANGED <<pc, source, loadState, routes, listening, exitCode>>

\* GET /products, up to the await: the limit is parsed and checked, and
\* manager.getProductsAsObjects() is called.
ListBegin(q) ==
    /\ Serving("/products")
    /\ LET limit == ParsedLimit(q)
           req == [Request("list", q.given, q.text, 0) EXCEPT !.limit = limit]
       IN  IF LimitRejected(limit)
           THEN Admit([req EXCEPT !.pc = "done", !.status = 400,
                                  !.error = "Invalid limit parameter"])
           ELSE Admit([req EXCEPT !.pending = getProductsAsObjects(products),
                                  !.calls = <<"getProductsAsObjects">>])
    /\ UNCHANGED <<pc, source, products, loadState, loadCalls, routes, listening, exitCode>>

\* GET /products, after the await: slice and res.json.
ListFinish(r) ==
    /\ exitCode = 0
    /\ r.route = "list"
    /\ r.pc = "await"
    /\ reqs' = (reqs \ {r}) \cup
          {[r EXCEPT !.pc = "done", !.status = 200,
                     !.items = LimitedProducts(r.pending, r.limit)]}
    /\ UNCHANGED <<pc, source, products, loadState, loadCalls, routes, listening, exitCode>>

\* GET /products/:pid, up to the await: the identifier is checked and
\* manager.getProductById(productId) is called.
GetBegin(pid) ==
    /\ Serving("/products/:pid")
    /\ LET req == Request("get", FALSE, <<>>, pid)
           got == getProductById(products, pid)
       IN  IF PidRejected(pid)
           THEN Admit([req EXCEPT !.pc = "done", !.status = 400,
                                  !.error = "Invalid product ID format (expecting UUID)"])
           ELSE Admit([req EXCEPT !.pending = got.found, !.threw = got.threw,
                                  !.calls = <<"getProductById">>])
    /\ UNCHANGED <<pc, source, products, loadState, loadCalls, routes, listening, exitCode>>

\* GET /products/:pid, after the await: 404 for the absent value, the plain
\* record otherwise; anything thrown (by the manager, or by calling
\* getProductAsObject on the absent value) is answered 500 by the catch.
GetFinish(r) ==
    /\ exitCode = 0
    /\ r.route = "get"
    /\ r.pc = "await"
    /\ reqs' = (reqs \ {r}) \cup
          { IF r.threw
            THEN [r EXCEPT !.pc = "done", !.status = 500, !.error = "error.message"]
            ELSE IF NotFound(r.pending)
            THEN [r EXCEPT !.pc = "done", !.status = 404, !.error = "Product not found"]
            ELSE IF r.pending = <<>>
            THEN [r EXCEPT !.pc = "done", !.status = 500, !.error = "error.message"]
            ELSE [r EXCEPT !.pc = "done", !.status = 200,
                           !.items = <<getProductAsObject(r.pending[1])>>] }
    /\ UNCHANGED <<pc, source, products, loadState, loadCalls, routes, listening, exitCode>>

Next ==
    \/ StartLoad
    \/ LoadResolve
    \/ LoadReject
    \/ Main
    \/ \E q \in LimitInputs : ListBegin(q)
    \/ \E r \in reqs : ListFinish(r)
    \/ \E pid \in PidInputs : GetBegin(pid)
    \/ \E r \in reqs : GetFinish(r)

Spec == Init /\ [][Next]_vars

-----------------------------------------------------------------------------
(* Properties *)

Answered(r) == r.pc = "done"
ListRequests == {r \in reqs : r.route = "list"}
GetRequests == {r \in reqs : r.route = "get"}

\* The repository's records as plain records, in the order of the array.
Catalog == [i \in 1..Len(products) |-> getProductAsObject(products[i])]

\* The first k entries of a sequence (all of them when it has fewer).
FirstOf(seq, k) == [i \in 1..Min(k, Len(seq)) |-> seq[i]]

\* Where the record with identifier id stands in the backing source.
SourcePos(id) == CHOOSE k \in 1..Len(source.records) : source.records[k].id = id

\* items follows the order of the backing source.
InLoadOrder(items) ==
    \A i, j \in 1..Len(items) : i < j => SourcePos(items[i].id) < SourcePos(items[j].id)

\* C1: routes are registered, the server listens and requests are handled
\* only once manager.loadProducts() has resolved; and when it rejects, the
\* process has exited with code 1, no route was registered, app.listen was
\* not called and no request was handled.
C1_LoadBeforeServing ==
    /\ (routes # {} \/ listening \/ reqs # {}) => (loadState = "resolved" /\ exitCode = 0)
    /\ loadState = "rejected" =>
          (pc = "exited" /\ exitCode = 1 /\ routes = {} /\ ~listening /\ reqs = {})

C1_Witness ==
    /\ loadState = "resolved"
    /\ listening
    /\ \E r \in reqs : Answered(r)

\* C2: a GET /products/:pid request whose identifier fails validateUUID is
\* answered 400 at once, without any call to the manager.
C2_MalformedIdRejected ==
    \A r \in GetRequests :
        ~IsUUIDText(IdText(r.pid)) =>
            (Answered(r) /\ r.status = 400 /\ r.calls = <<>>)

C2_Witness ==
    \E r \in GetRequests :
        /\ ~IsUUIDText(IdText(r.pid))
        /\ Len(IdText(r.pid)) = 36
        /\ Answered(r)
        /\ products # <<>>

\* C3: a GET /products request whose limit parameter is 0 is answered 200
\* with no record at all.
C3_LimitZeroEmpty ==
    \A r \in ListRequests :
        (r.given /\ parseInt(r.text) = Num(0) /\ Answered(r)) =>
            (r.status = 200 /\ r.items = <<>>)

\* C4: a GET /products request whose limit parameter does not parse to an
\* integer is answered 400 at once, without any call to the manager.
C4_NonNumericLimitRejected ==
    \A r \in ListRequests :
        (r.given /\ parseInt(r.text).nan) =>
            (Answered(r) /\ r.status = 400 /\ r.calls = <<>> /\ r.items = <<>>)

\* C5: a GET /products request whose limit parameter is a negative integer
\* is answered 400 at once, without any call to the manager.
C5_NegativeLimitRejected ==
    \A r \in ListRequests :
        (r.given /\ ~parseInt(r.text).nan /\ parseInt(r.text).n < 0) =>
            (Answered(r) /\ r.status = 400 /\ r.calls = <<>>)

C5_Witness ==
    \E r \in ListRequests :
        /\ r.given /\ ~parseInt(r.text).nan /\ parseInt(r.text).n < 0
        /\ Answered(r)
        /\ products # <<>>

\* C6: a GET /products request whose limit parameter is a positive integer L
\* is answered 200 with the first min(L, n) records of the repository, in
\* load order (all n of them when L >= n).
C6_PositiveLimitPrefix ==
    \A r \in ListRequests :
        (r.given /\ ~parseInt(r.text).nan /\ parseInt(r.text).n > 0 /\ Answered(r)) =>
            /\ r.status = 200
            /\ r.items = FirstOf(Catalog, parseInt(r.text).n)
            /\ Len(r.items) = Min(parseInt(r.text).n, Len(products))
            /\ InLoadOrder(r.items)
            /\ parseInt(r.text).n >= Len(products) => r.items = Catalog

C6_Witness ==
    \E r1, r2 \in ListRequests :
        /\ r1.given /\ Answered(r1) /\ r1.status = 200
        /\ r2.given /\ Answered(r2) /\ r2.status = 200
        /\ parseInt(r1.text) = Num(3) /\ Len(r1.items) = 3 /\ Len(products) > 3
        /\ parseInt(r2.text) = Num(12) /\ Len(r2.items) = Len(products)

\* C7: a GET /products/:pid request whose identifier is well formed and is
\* the identifier of no loaded product is answered 404 (neither 400 nor 500).
C7_AbsentIdNotFound ==
    \A r \in GetRequests :
        ( /\ IsUUIDText(IdText(r.pid))
          /\ \A i \in 1..Len(products) : products[i].id # r.pid
          /\ Answered(r) ) =>
            (r.status = 404 /\ r.status \notin {400, 500} /\ r.items = <<>>)

C7_Witness ==
    \E r \in GetRequests :
        /\ IsUUIDText(IdText(r.pid))
        /\ \A i \in 1..Len(products) : products[i].id # r.pid
        /\ Answered(r)
        /\ products # <<>>

\* C8: a GET /products/:pid request for the identifier of a loaded product P
\* is never answered 400 or 404: it is answered 200 with P's plain record.
C8_LoadedIdFound ==
    \A r \in GetRequests :
        \A i \in 1..Len(products) :
            (products[i].id = r.pid /\ Answered(r)) =>
                /\ r.status = 200
                /\ r.items = <<getProductAsObject(products[i])>>

C8_Witness ==
    \E r \in GetRequests :
        \E i \in 1..Len(products) :
            /\ i > 1
            /\ products[i].id = r.pid
            /\ Answered(r)

\* What a request is answered when its handler runs alone, start to end,
\* against the repository as it is now: <<status, items>>.
AloneResponse(r) ==
    IF r.route = "list"
    THEN LET limit == ParsedLimit([given |-> r.given, text |-> r.text])
         IN  IF LimitRejected(limit) THEN <<400, <<>> >>
             ELSE <<200, FirstOf(Catalog, limit.n)>>
    ELSE IF ~IsUUIDText(IdText(r.pid)) THEN <<400, <<>> >>
    ELSE LET hits == {i \in 1..Len(products) : products[i].id = r.pid}
         IN  IF hits = {} THEN <<404, <<>> >>
             ELSE <<200, <<Catalog[CHOOSE i \in hits : TRUE]>> >>

C9_ResponsesAsIfAlone ==
    /\ loadCalls <= 1
    /\ \A r \in reqs : Answered(r) => <<r.status, r.items>> = AloneResponse(r)
    /\ \A r1, r2 \in ListRequests :
          ( /\ Answered(r1) /\ Answered(r2)
            /\ r1.given = r2.given /\ r1.text = r2.text ) => r1.items = r2.items

C9_LoadedIsFrozen ==
    loadState = "resolved" =>
        /\ products' = products
        /\ loadCalls' = loadCalls
        /\ loadState' = loadState

\* C9: once the load has resolved, no step of any handler changes the
\* repository's contents or order and loadProducts is not called again; every
\* answer is the one the request would get running alone, so two list
\* requests with the same limit get the same sequence.
C9_ReadOnlyAfterLoad == []C9_ResponsesAsIfAlone /\ [][C9_LoadedIsFrozen]_vars

C9_Witness ==
    \E r1, r2 \in reqs :
        /\ r1.route = "list" /\ r1.pc = "await"
        /\ r2.route = "get" /\ Answered(r2) /\ r2.status = 200
        /\ products # <<>>

\* C10: a GET /products request with no limit parameter is answered 200 with
\* the first min(10, n) records in load order, so never with the whole of a
\* repository of more than 10 products.
C10_DefaultLimitTen ==
    \A r \in ListRequests :
        (~r.given /\ Answered(r)) =>
            /\ r.status = 200
            /\ r.items = FirstOf(Catalog, 10)
            /\ InLoadOrder(r.items)
            /\ Len(products) > 10 => Len(r.items) < Len(products)

C10_Witness ==
    \E r \in ListRequests :
        /\ ~r.given
        /\ Answered(r)
        /\ Len(products) > 10

====
